---- MODULE Spec2Model ----
(***************************************************************************)
(* PRReviewerBot: the output handlers (sorting, grouping, summary and PR   *)
(* review comments), the AI connectors' retry wrappers, the analyzers'     *)
(* response parsers and the review run, modelled from the TypeScript       *)
(* sources.                                                                *)
(***************************************************************************)
EXTENDS Integers, Sequences, FiniteSets, TLC

(***************************************************************************)
(* Bounds of the model.                                                    *)
(***************************************************************************)
\* longest issue list handed to the sorting and grouping methods
MaxIssues == 4

\* longest issue list handed to GitHubPROutputHandler.handleOutput
MaxPRIssues == 3

\* most lines of one file's unified diff
MaxDiffLines == 4

\* largest value given to setMaxRetries
MaxRetriesSetting == 3

\* most raw issues in one AI response
MaxItems == 2

\* most changed files in one review run
MaxFiles == 2

\* most calls made to one RepoService
MaxRepoCalls == 4

\* most CodeIssues created in one run
MaxCreated == 3

\* longest issue list handed to FileOutputHandler.handleOutput
MaxReportIssues == 3

\* latest value of Date.now(), in milliseconds after the start of the run
MaxClock == 1

\* most analyzers selected with --agents in one review run
MaxAgents == 2

(***************************************************************************)
(* CodeIssue (packages/core/src/models/CodeIssue.ts).  location.* is       *)
(* flattened into the record.  startLine/endLine = NoLine models an absent *)
(* (undefined) line: both are falsy in the `!issue.location.startLine`     *)
(* test.                                                                   *)
(***************************************************************************)
IssueSeverity == {"info", "warning", "error", "critical"}

IssueType == {"security", "style", "bug", "optimization", "other"}

NoLine == 0

\* severity texts a CodeIssue can carry at run time: OptimizationAgent's
\* parseAIResponse casts the AI's text (`issue.severity as IssueSeverity`)
\* and its prompt asks for "CRITICAL|ERROR|WARNING|INFO".
SeverityTexts == IssueSeverity \cup {"CRITICAL"}

(***************************************************************************)
(* BaseOutputHandler.sortIssuesBySeverity                                  *)
(***************************************************************************)
severityOrder == [s \in IssueSeverity |->
                    CASE s = "critical" -> 0
                      [] s = "error"    -> 1
                      [] s = "warning"  -> 2
                      [] s = "info"     -> 3]

\* comparator that also orders by file path (as a four-key sort would)
compareBySeverityThenPath(a, b) ==
    IF a.severity \in DOMAIN severityOrder /\ b.severity \in DOMAIN severityOrder
    THEN IF severityOrder[a.severity] # severityOrder[b.severity]
         THEN severityOrder[a.severity] - severityOrder[b.severity]
         ELSE IF a.filePath = b.filePath THEN 0
         ELSE IF a.filePath = "a.ts" THEN -1 ELSE 1
    ELSE 0

\* comparator that never answers 0: a <= b ? -1 : 1
compareNeverEqual(a, b) ==
    IF a.severity \in DOMAIN severityOrder /\ b.severity \in DOMAIN severityOrder
    THEN IF severityOrder[a.severity] <= severityOrder[b.severity] THEN -1 ELSE 1
    ELSE 0

\* (a, b) => severityOrder[a.severity] - severityOrder[b.severity]
\* A severity that is no key of severityOrder reads undefined, the
\* difference is NaN, and Array.prototype.sort takes NaN as +0.
compareBySeverity(a, b) ==
    IF a.severity \in DOMAIN severityOrder /\ b.severity \in DOMAIN severityOrder
    THEN severityOrder[a.severity] - severityOrder[b.severity]
    ELSE 0

ReverseRange(arr, n) ==
    [i \in 1..Len(arr) |-> IF i <= n THEN arr[n + 1 - i] ELSE arr[i]]

\* Array.prototype.sort on Node >= 20 (V8 TimSort).  For fewer than 64
\* elements the whole array is one run: CountAndMakeRun finds the initial
\* run, BinaryInsertionSort inserts the remaining elements.
RECURSIVE CountRun(_, _, _)
CountRun(arr, idx, isDescending) ==
    IF idx > Len(arr) THEN idx - 1
    ELSE LET order == compareBySeverity(arr[idx], arr[idx - 1])
         IN  IF (isDescending /\ order >= 0) \/ (~isDescending /\ order < 0)
             THEN idx - 1
             ELSE CountRun(arr, idx + 1, isDescending)

RECURSIVE BinarySearch(_, _, _, _)
BinarySearch(arr, pivot, left, right) ==
    IF left >= right THEN left
    ELSE LET mid == left + ((right - left) \div 2)
         IN  IF compareBySeverity(pivot, arr[mid]) < 0
             THEN BinarySearch(arr, pivot, left, mid)
             ELSE BinarySearch(arr, pivot, mid + 1, right)

\* move arr[start] to index left (left <= start), shifting the elements between
InsertAt(arr, start, left) ==
    [p \in 1..Len(arr) |->
        IF p = left THEN arr[start]
        ELSE IF p > left /\ p <= start THEN arr[p - 1]
        ELSE arr[p]]

RECURSIVE BinaryInsertionSort(_, _)
BinaryInsertionSort(arr, start) ==
    IF start > Len(arr) THEN arr
    ELSE BinaryInsertionSort(
             InsertAt(arr, start, BinarySearch(arr, arr[start], 1, start)),
             start + 1)

ArraySort(arr) ==
    IF Len(arr) < 2 THEN arr
    ELSE LET isDescending == compareBySeverity(arr[2], arr[1]) < 0
             runLength    == CountRun(arr, 3, isDescending)
             run          == IF isDescending THEN ReverseRange(arr, runLength) ELSE arr
         IN  BinaryInsertionSort(run, runLength + 1)

\* return [...issues].sort(...): a sorted copy, the argument is not touched
sortIssuesBySeverity(issues) == ArraySort(issues)

\* return issues.sort(...): Array.prototype.sort reorders the argument itself
ArgumentAfterSortInPlace(issues) == ArraySort(issues)

\* the argument once sortIssuesBySeverity has returned: the spread in
\* [...issues] copies the array, and sort reorders the copy
ArgumentAfterSort(issues) == issues

(***************************************************************************)
(* BaseOutputHandler.groupIssuesByFile / ByType / BySeverity.  A JS Map is *)
(* a sequence of entries [key, items] in insertion order.                  *)
(***************************************************************************)
MapHas(map, key) == \E e \in 1..Len(map) : map[e].key = key

\* groupedIssues.set(key, [issue]) in place of the push
MapOverwrite(map, key, issue) ==
    [e \in 1..Len(map) |->
        IF map[e].key = key THEN [key |-> key, items |-> <<issue>>] ELSE map[e]]

\* groupedIssues.get(key)!.push(issue)
MapPush(map, key, issue) ==
    [e \in 1..Len(map) |->
        IF map[e].key = key
        THEN [key |-> key, items |-> Append(map[e].items, issue)]
        ELSE map[e]]

\* if (!groupedIssues.has(key)) groupedIssues.set(key, [])
MapEnsure(map, key) ==
    IF MapHas(map, key) THEN map ELSE Append(map, [key |-> key, items |-> <<>>])

RECURSIVE GroupLoop(_, _, _, _)
GroupLoop(issues, i, field, map) ==
    IF i > Len(issues) THEN map
    ELSE GroupLoop(issues, i + 1, field,
                   MapPush(MapEnsure(map, issues[i][field]), issues[i][field], issues[i]))

groupIssuesByFile(issues) == GroupLoop(issues, 1, "filePath", <<>>)

groupIssuesByType(issues) == GroupLoop(issues, 1, "type", <<>>)

groupIssuesBySeverity(issues) == GroupLoop(issues, 1, "severity", <<>>)

(***************************************************************************)
(* Unified diff of one file, as the DiffParser of spec section 4.1 reads   *)
(* it.  A diff line is its tag ("@@", "+", "-" or " "); a hunk header also *)
(* carries oldStart and newStart.                                          *)
(***************************************************************************)
Null == -1

Hunk(oldStart, newStart) == [tag |-> "@@", oldStart |-> oldStart, newStart |-> newStart]

Body(tag) == [tag |-> tag, oldStart |-> 0, newStart |-> 0]

DiffLine(role, oldLine, newLine, pos) ==
    [role |-> role, oldLineNumber |-> oldLine, newLineNumber |-> newLine,
     diffPosition |-> pos]

RECURSIVE ParseLoop(_, _, _, _, _)
ParseLoop(text, k, oldLine, newLine, acc) ==
    IF k > Len(text) THEN acc
    ELSE LET l == text[k] IN
         CASE l.tag = "@@" ->
                ParseLoop(text, k + 1, l.oldStart, l.newStart,
                          Append(acc, DiffLine("hunkHeader", Null, Null, k)))
           [] l.tag = "+" ->
                ParseLoop(text, k + 1, oldLine, newLine + 1,
                          Append(acc, DiffLine("added", Null, newLine, k)))
           [] l.tag = "-" ->
                ParseLoop(text, k + 1, oldLine + 1, newLine,
                          Append(acc, DiffLine("removed", oldLine, Null, k)))
           [] OTHER ->
                ParseLoop(text, k + 1, oldLine + 1, newLine + 1,
                          Append(acc, DiffLine("context", oldLine, newLine, k)))

parse(diffText) == ParseLoop(diffText, 1, 0, 0, <<>>)

\* the new-file line occurs in the parsed diff (as an added or context line)
LineInDiff(fileDiff, line) ==
    \E k \in 1..Len(fileDiff) :
        /\ fileDiff[k].role \in {"added", "context"}
        /\ fileDiff[k].newLineNumber = line

(***************************************************************************)
(* GitHubPROutputHandler.findPositionInDiff                                *)
(***************************************************************************)
\* "This is a simplified implementation ... return 1;"
findPositionInDiff(diff, filePath, line) == 1

(***************************************************************************)
(* GitHubPROutputHandler: generateSummary, formatIssueComment,             *)
(* formatReviewComments.                                                   *)
(***************************************************************************)
Count(issues, field, value) ==
    Cardinality({ i \in 1..Len(issues) : issues[i][field] = value })

\* the counts written into the summary text
generateSummary(issues) ==
    [total        |-> Len(issues),
     critical     |-> Count(issues, "severity", "critical"),
     error        |-> Count(issues, "severity", "error"),
     warning      |-> Count(issues, "severity", "warning"),
     info         |-> Count(issues, "severity", "info"),
     security     |-> Count(issues, "type", "security"),
     style        |-> Count(issues, "type", "style"),
     bug          |-> Count(issues, "type", "bug"),
     optimization |-> Count(issues, "type", "optimization"),
     other        |-> Count(issues, "type", "other")]

NoSummary == [total |-> -1]

\* 'No issues found in this PR.'
NoIssuesSummary == [total |-> 0]

\* the comment body: severity and type emoji, title (the id stands for the
\* title and description), and "*Detected by: ${issue.agent}*"
formatIssueComment(issue) ==
    [id |-> issue.id, severity |-> issue.severity, type |-> issue.type,
     agent |-> issue.agent]

\* a variant that leaves out an issue placed on a line that already has a comment
RECURSIVE FormatLoopOnePerLine(_, _, _, _)
FormatLoopOnePerLine(issues, i, diff, acc) ==
    IF i > Len(issues) THEN acc
    ELSE LET issue == issues[i] IN
         IF issue.startLine = NoLine
            \/ \E c \in 1..Len(acc.comments) :
                  /\ acc.comments[c].path = issue.filePath
                  /\ acc.comments[c].line = issue.startLine
         THEN FormatLoopOnePerLine(issues, i + 1, diff, acc)
         ELSE FormatLoopOnePerLine(issues, i + 1, diff,
                  [acc EXCEPT !.comments =
                      Append(@, [path |-> issue.filePath, line |-> issue.startLine,
                                 side |-> "RIGHT", body |-> formatIssueComment(issue)])])

\* for (const issue of issues) { ... } of formatReviewComments
RECURSIVE FormatLoop(_, _, _, _)
FormatLoop(issues, i, diff, acc) ==
    IF i > Len(issues) THEN acc
    ELSE LET issue == issues[i] IN
         IF issue.startLine = NoLine
         THEN FormatLoop(issues, i + 1, diff, acc)
         ELSE IF findPositionInDiff(diff, issue.filePath, issue.startLine) = Null
         THEN FormatLoop(issues, i + 1, diff,
                         [acc EXCEPT !.warned = Append(@, issue.id)])
         ELSE FormatLoop(issues, i + 1, diff,
                  [acc EXCEPT !.comments =
                      Append(@, [path |-> issue.filePath, line |-> issue.startLine,
                                 side |-> "RIGHT", body |-> formatIssueComment(issue)])])

formatReviewCommentsOnePerLine(issues, diff) ==
    FormatLoopOnePerLine(issues, 1, diff, [comments |-> <<>>, warned |-> <<>>])

formatReviewComments(issues, diff) ==
    FormatLoop(issues, 1, diff, [comments |-> <<>>, warned |-> <<>>])

\* handleOutput without the `return` of the empty case
AfterSummaryNoReturn(issues) == "summarised"

\* where handleOutput goes on once the summary comment is posted: it
\* returns when issues.length === 0, otherwise createReviewComments follows
AfterSummary(issues) == IF Len(issues) = 0 THEN "done" ELSE "summarised"

(***************************************************************************)
(* withRetry of BaseAIConnector.ts (loop) and BaseConnector.ts (recursive) *)
(***************************************************************************)
\* protected retryDelay: number = 1000
RetryDelay == 1000

\* protected maxRetries: number = 3
DefaultMaxRetries == 3

NoError == [kind |-> "none", n |-> 0]

\* new Error('Unknown error occurred during retry')
UnknownError == [kind |-> "unknown", n |-> 0]

\* the error raised by the n-th invocation of fn; kind "rate429" is an
\* AxiosError whose response.status is 429
ErrorOf(kind, n) == [kind |-> kind, n |-> n]

\* what fn rejects with when the request ends in `outcome`: makeRequest of
\* OllamaConnector lets the AxiosError through ("rate429" for status 429);
\* the functions ClaudeConnector and OpenAIConnector pass to withRetry catch
\* it and throw new Error('... API rate limit exceeded: ...') ("plain429")
ThrownKind(fn, outcome) ==
    IF fn = "wrapping" /\ outcome = "rate429" THEN "plain429" ELSE outcome

\* no error is classified as a rate-limit error
IsRateLimitNever(error) == FALSE

\* axios.isAxiosError(error) && error.response?.status === 429
IsRateLimit(error) == error.kind = "rate429"

\* attempt <= this.maxRetries in place of <
LoopConditionOffByOne(att, max) == att <= max

\* for (...; attempt < this.maxRetries; ...)
LoopCondition(att, max) == att < max

\* a constant delay for rate-limit errors
RateLimitDelayConstant(att) == RetryDelay

\* this.retryDelay * (attempt + 1)
RateLimitDelay(att) == RetryDelay * (att + 1)

\* if (attempt < this.maxRetries - 1)
HasAttemptsLeft(att, max) == att < max - 1

\* if (retries <= 0) throw error
NoRetriesLeft(r) == r <= 0

Pow2(n) == 2 ^ n

\* a delay that doubles with the attempt for other errors
OtherErrorDelayDoubling(att) == RetryDelay * Pow2(att)

\* await this.delay(this.retryDelay), for an error that is not a rate limit
OtherErrorDelay(att) == RetryDelay

\* return this.withRetry(fn, retries - 1, delay * 2): the next delay
NextDelay(d) == d * 2

\* a wrapper error in place of lastError
ExhaustedErrorWrapped(last) == UnknownError

\* throw lastError || new Error('Unknown error occurred during retry')
ExhaustedError(last) == IF last = NoError THEN UnknownError ELSE last

\* fn() invoked without awaiting the invocation before it
MayInvokeUnawaited(pc) == pc \in {"call", "await"}

\* `return await fn()`: fn is invoked when control reaches the call, and
\* control stays at the await until that invocation settles
MayInvoke(pc) == pc = "call"

\* the value the n-th invocation of fn resolves with
ResultOf(n) == n

NoResult == 0

(***************************************************************************)
(* AI responses and the analyzers' response parsers.  A response text is   *)
(* described by its form and, when it holds a list of issues, by the       *)
(* severity and type value of each raw issue:                              *)
(*   "noJson"         text without brackets or braces                      *)
(*   "invalidJson"    bracketed text that JSON.parse rejects               *)
(*   "issuesNotArray" {"issues": "none"}                                   *)
(*   "array"          [ {...}, ... ]                                       *)
(*   "object"         {"issues": [ {...}, ... ]}                           *)
(***************************************************************************)
\* a raw field that is absent (undefined) or a number instead of a string
Missing == "<undefined>"

NotAString == "<number>"

RawSeverities == {"critical", "CRITICAL", "high", Missing, NotAString}

RawTypes == {"bug", "performance"}

Response(form, items) == [form |-> form, items |-> items]

\* String.prototype.toLowerCase on the severity and type texts in use
toLowerCase(text) == IF text = "CRITICAL" THEN "critical" ELSE text

\* response.match(/\[\s*\{.*\}\s*\]/s) finds an array of objects, and
\* JSON.parse accepts it
HasIssueArray(response) == response.form \in {"array", "object"} /\ response.items # <<>>

\* issue.severity?.toLowerCase() throws a TypeError for a number
ThrowsInMap(response) ==
    \E i \in 1..Len(response.items) : response.items[i].severity = NotAString

\* switch (issue.severity?.toLowerCase()) { ... default: ... }
MapSeverity(raw, default) ==
    IF raw # Missing /\ toLowerCase(raw) \in IssueSeverity
    THEN toLowerCase(raw)
    ELSE default

\* switch (issue.type?.toLowerCase()) { ... default: type = IssueType.OTHER }
MapType(raw) ==
    IF raw # Missing /\ toLowerCase(raw) \in IssueType THEN toLowerCase(raw) ELSE "other"

\* BaseAgent.createIssue: the fields the output handlers read
createIssue(title, type, severity, filePath, agentName) ==
    [title |-> title, type |-> type, severity |-> severity, filePath |-> filePath,
     agent |-> agentName]

\* AIAgent.parseResponse
parseResponseAI(response, filePath) ==
    IF ~HasIssueArray(response) \/ ThrowsInMap(response)
    THEN <<>>
    ELSE [i \in 1..Len(response.items) |->
             createIssue("finding", MapType(response.items[i].type),
                         MapSeverity(response.items[i].severity, "info"), filePath, "AI")]

\* SecurityAgent.parseResponse
parseResponseSecurity(response, filePath) ==
    IF ~HasIssueArray(response) \/ ThrowsInMap(response)
    THEN <<>>
    ELSE [i \in 1..Len(response.items) |->
             createIssue("finding", "security",
                         MapSeverity(response.items[i].severity, "error"), filePath,
                         "Security")]

\* BugDetectionAgent.parseResponse
parseResponseBug(response, filePath) ==
    IF ~HasIssueArray(response) \/ ThrowsInMap(response)
    THEN <<>>
    ELSE [i \in 1..Len(response.items) |->
             createIssue("finding", "bug",
                         MapSeverity(response.items[i].severity, "warning"), filePath,
                         "BugDetection")]

\* OptimizationAgent.parseAIResponse: response.match(/\{[\s\S]*\}/), JSON.parse,
\* jsonResponse.issues must be an array; `issue.severity as IssueSeverity`
parseAIResponse(response, filePath) ==
    IF response.form # "object"
    THEN <<>>
    ELSE [i \in 1..Len(response.items) |->
             createIssue("finding", "optimization", response.items[i].severity,
                         filePath, "optimization-agent")]

\* the issue the OpenAI-based AIAgent returns for a response it cannot parse
ParseErrorIssue ==
    [title |-> "Error parsing AI analysis. Please check the code manually.",
     type |-> "best-practice", severity |-> "low"]

\* the issue the OpenAI-based AIAgent returns when the request fails
RequestErrorIssue ==
    [title |-> "Error analyzing code with AI", type |-> "best-practice",
     severity |-> "low"]

\* ai-agent.ts: JSON.parse(content_response);
\* Array.isArray(result.issues) ? result.issues : []
parseOpenAIContent(response) ==
    IF response.form \in {"noJson", "invalidJson"}
    THEN <<ParseErrorIssue>>
    ELSE IF response.form # "object"
    THEN <<>>
    ELSE [i \in 1..Len(response.items) |->
             [title |-> "finding", type |-> response.items[i].type,
              severity |-> response.items[i].severity]]

Parsers == {"AI", "Security", "BugDetection", "optimization-agent", "AI Analysis"}

\* the parser of each analyzer
ParseBy(parser, response, filePath) ==
    CASE parser = "AI"                 -> parseResponseAI(response, filePath)
      [] parser = "Security"           -> parseResponseSecurity(response, filePath)
      [] parser = "BugDetection"       -> parseResponseBug(response, filePath)
      [] parser = "optimization-agent" -> parseAIResponse(response, filePath)
      [] OTHER                         -> parseOpenAIContent(response)

(***************************************************************************)
(* One analyze call.  aiOutcome is "fails" when the request to the AI      *)
(* service still fails after the connector's retries, otherwise the        *)
(* response text.                                                          *)
(***************************************************************************)
Fails == [form |-> "fails", items |-> <<>>]

\* the text OllamaConnector returns in place of an error:
\* `Error: Failed to generate response from Ollama. ...`
OllamaErrorText == Response("noJson", <<>>)

\* generateResponse of the connectors: ClaudeConnector and OpenAIConnector
\* ("throwing") return this.withRetry(...), OllamaConnector catches
generateResponse(connector, aiOutcome) ==
    IF aiOutcome # Fails
    THEN [rejected |-> FALSE, text |-> aiOutcome]
    ELSE IF connector = "ollama"
    THEN [rejected |-> FALSE, text |-> OllamaErrorText]
    ELSE [rejected |-> TRUE, text |-> OllamaErrorText]

\* the issues of an analyzer's pattern checks: in this model the checks hit
\* once in a.ts and nowhere else
PatternIssues(agentName, filePath) ==
    IF filePath # "a.ts" \/ agentName = "AI Analysis"
    THEN <<>>
    ELSE CASE agentName = "Security" ->
                 <<createIssue("pattern", "security", "warning", filePath, agentName)>>
           [] agentName = "BugDetection" ->
                 <<createIssue("pattern", "bug", "warning", filePath, agentName)>>
           [] agentName = "optimization-agent" ->
                 <<createIssue("pattern", "optimization", "warning", filePath, agentName)>>
           [] agentName = "Style" ->
                 <<createIssue("pattern", "style", "warning", filePath, agentName)>>
           [] OTHER ->
                 <<[title |-> "ESLint", type |-> "style", severity |-> "low"]>>

Settled(issues) == [rejected |-> FALSE, issues |-> issues]

Rejected == [rejected |-> TRUE, issues |-> <<>>]

\* SecurityAgent.analyze: checkWithAI is awaited without a try/catch
analyzeSecurity(connector, filePath, aiOutcome) ==
    LET r == generateResponse(connector, aiOutcome) IN
    IF r.rejected
    THEN Rejected
    ELSE Settled(PatternIssues("Security", filePath)
                   \o parseResponseSecurity(r.text, filePath))

\* BugDetectionAgent.analyze: checkWithAI is awaited without a try/catch
analyzeBugDetection(connector, filePath, aiOutcome) ==
    LET r == generateResponse(connector, aiOutcome) IN
    IF r.rejected
    THEN Rejected
    ELSE Settled(PatternIssues("BugDetection", filePath)
                   \o parseResponseBug(r.text, filePath))

\* OptimizationAgent.analyze: the AI suggestions are fetched inside try/catch
analyzeOptimization(connector, filePath, aiOutcome) ==
    LET r == generateResponse(connector, aiOutcome) IN
    Settled(PatternIssues("optimization-agent", filePath)
              \o (IF r.rejected THEN <<>> ELSE parseAIResponse(r.text, filePath)))

\* StyleAgent.analyze (no AI call)
analyzeStyle(filePath) == Settled(PatternIssues("Style", filePath))

\* ai-agent.ts AIAgent.analyze: the OpenAI SDK call and the parsing are
\* inside try/catch blocks that return an issue
analyzeOpenAI(filePath, aiOutcome) ==
    IF aiOutcome = Fails
    THEN Settled(<<RequestErrorIssue>>)
    ELSE Settled(parseOpenAIContent(aiOutcome))

\* style-agent.ts StyleAgent.analyze (no AI call)
analyzeStyleChecker(filePath) == Settled(PatternIssues("Style Checker", filePath))

\* agent.analyze(file, fileContent, outputDir)
analyze(agentName, connector, filePath, aiOutcome) ==
    CASE agentName = "Security"           -> analyzeSecurity(connector, filePath, aiOutcome)
      [] agentName = "BugDetection"       -> analyzeBugDetection(connector, filePath, aiOutcome)
      [] agentName = "optimization-agent" -> analyzeOptimization(connector, filePath, aiOutcome)
      [] agentName = "Style"              -> analyzeStyle(filePath)
      [] agentName = "AI Analysis"        -> analyzeOpenAI(filePath, aiOutcome)
      [] OTHER                            -> analyzeStyleChecker(filePath)

\* whether the analyzer sends a request to the AI service
UsesAI(agentName) == agentName \notin {"Style", "Style Checker"}

\* allIssues.push(...issues) replaced by an assignment
AccumulateLatestOnly(all, found) == found

\* allIssues.push(...issues)
Accumulate(all, found) == all \o found

\* an analyze call started without awaiting the one before it
MayAnalyzeUnawaited(pc) == pc \in {"loop", "analyzing"}

\* `const issues = await agent.analyze(...)`: the loop is at the call, and
\* stays at the await until the call settles
MayAnalyze(pc) == pc = "loop"

(***************************************************************************)
(* FileOutputHandler: the markdown is the sequence of its headings and     *)
(* issue entries.                                                          *)
(***************************************************************************)
Heading(text) == [kind |-> "heading", text |-> text, id |-> 0]

\* formatIssue(issue): title line, location, description, "Detected by"
formatIssue(issue) == [kind |-> "issue", text |-> issue.agent, id |-> issue.id]

\* for (const issue of items) markdown += this.formatIssue(issue)
FormatAll(items) == [k \in 1..Len(items) |-> formatIssue(items[k])]

\* groupedIssues.get(key)!
MapGet(map, key) == map[CHOOSE e \in 1..Len(map) : map[e].key = key].items

\* for (const [filePath, fileIssues] of groupedIssues.entries()) ...
RECURSIVE FileSections(_, _)
FileSections(map, e) ==
    IF e > Len(map) THEN <<>>
    ELSE <<Heading(map[e].key)>> \o FormatAll(sortIssuesBySeverity(map[e].items))
            \o FileSections(map, e + 1)

generateIssuesByFile(issues) ==
    <<Heading("Issues by File")>> \o FileSections(groupIssuesByFile(issues), 1)

typeOrder == <<"security", "bug", "optimization", "style", "other">>

\* for (const type of typeOrder) if (groupedIssues.has(type)) ...
RECURSIVE TypeSections(_, _)
TypeSections(map, t) ==
    IF t > Len(typeOrder) THEN <<>>
    ELSE (IF MapHas(map, typeOrder[t])
          THEN <<Heading(typeOrder[t])>>
                  \o FormatAll(sortIssuesBySeverity(MapGet(map, typeOrder[t])))
          ELSE <<>>)
            \o TypeSections(map, t + 1)

generateIssuesByType(issues) ==
    <<Heading("Issues by Type")>> \o TypeSections(groupIssuesByType(issues), 1)

\* const severityOrder = [CRITICAL, ERROR, WARNING, INFO] of
\* generateIssuesBySeverity
severitySections == <<"critical", "error", "warning", "info">>

\* for (const severity of severityOrder) if (groupedIssues.has(severity)) ...
RECURSIVE SeveritySections(_, _)
SeveritySections(map, v) ==
    IF v > Len(severitySections) THEN <<>>
    ELSE (IF MapHas(map, severitySections[v])
          THEN <<Heading(severitySections[v])>>
                  \o FormatAll(MapGet(map, severitySections[v]))
          ELSE <<>>)
            \o SeveritySections(map, v + 1)

generateIssuesBySeverity(issues) ==
    <<Heading("Issues by Severity")>>
        \o SeveritySections(groupIssuesBySeverity(issues), 1)

generateIssuesList(issues) ==
    <<Heading("All Issues")>> \o FormatAll(sortIssuesBySeverity(issues))

\* '# PR Review Results', the summary, then the section of the first
\* option set among groupByFile, groupByType, groupBySeverity
generateMarkdown(issues, mode) ==
    <<Heading("PR Review Results"), Heading("Summary")>>
        \o (CASE mode = "byFile"     -> generateIssuesByFile(issues)
              [] mode = "byType"     -> generateIssuesByType(issues)
              [] mode = "bySeverity" -> generateIssuesBySeverity(issues)
              [] OTHER               -> generateIssuesList(issues))

(***************************************************************************)
(* Issue identifiers.  BaseAgent.generateIssueId builds the id from the    *)
(* agent's name, the type, the file's base name, the start line and the    *)
(* time; OptimizationAgent takes a uuidv4().  An id is the tuple of its    *)
(* parts.                                                                  *)
(***************************************************************************)
\* path.basename(filePath)
basename(filePath) ==
    CASE filePath = "src/a.ts" -> "a.ts"
      [] filePath = "lib/a.ts" -> "a.ts"
      [] filePath = "src/b.ts" -> "b.ts"
      [] OTHER                 -> filePath

\* `${this.name}-${type}-${fileName}${lineStr}-${Date.now().toString(36)}`
\* with lineStr = line ? `-L${line}` : ''
generateIssueId(name, type, filePath, line, now) ==
    <<name, type, basename(filePath)>>
        \o (IF line # NoLine THEN <<"L", line>> ELSE <<>>)
        \o <<now>>

\* uuidv4(): the k-th identifier drawn differs from all drawn before
uuidv4(k) == <<"uuid", k>>

(***************************************************************************)
(* State.                                                                  *)
(***************************************************************************)
VARIABLES
    issues,          \* the CodeIssue[] handed to an output handler method
    sortedIssues,    \* result of sortIssuesBySeverity(issues)
    resortedIssues,  \* result of sorting sortedIssues once more
    groupedIssues,   \* result of one of the groupIssuesBy* methods
    step,            \* "input" | "sorted" | "resorted" | "byFile" | "byType" | "bySeverity"
    \* findPositionInDiff
    prDiff,          \* the PR diff: file path -> that file's diff lines
    queryFile,       \* filePath argument
    queryLine,       \* line argument
    position,        \* value returned
    resolved,        \* TRUE once findPositionInDiff has returned
    \* GitHubPROutputHandler.handleOutput
    prIssues,        \* the issues argument
    hpc,             \* "start" | "summarised" | "done" | "rejected"
    summary,         \* body of the summary comment posted, NoSummary before
    summaryCalls,    \* number of octokit.issues.createComment calls
    reviewCalls,     \* number of octokit.pulls.createReview calls
    comments,        \* the comments array of the created review
    warned,          \* issues named by console.warn('Could not find position ...')
    \* withRetry
    variant,         \* "loop" (BaseAIConnector.ts) | "recursive" (BaseConnector.ts)
    fnKind,          \* "makeRequest" (Ollama) | "wrapping" (Claude, OpenAI)
    maxRetries,      \* this.maxRetries
    attempt,         \* loop variable of the loop variant
    retries,         \* retries parameter of the recursive variant
    delay,           \* delay parameter of the recursive variant
    calls,           \* number of times fn() was invoked
    failures,        \* the error of each failed invocation, in order
    delays,          \* the delays slept, in order
    lastError,       \* lastError of the loop variant
    thrown,          \* the error the run rejected with
    result,          \* the value the run resolved with
    events,          \* what the run did so far: "call", "ok", "fail", "delay", "elapsed"
    rpc,             \* "call" | "await" | "sleep" | "resolved" | "rejected"
    \* an analyzer's response parser
    aiResponse,      \* the response text handed to the parser
    parserName,      \* the analyzer whose parser runs
    parsedIssues,    \* the CodeIssue[] the parser returned
    parsedSummary,   \* generateSummary(parsedIssues)
    ppc,             \* "input" | "parsed" | "summarised"
    \* a review run
    runner,          \* "command" (review command) | "service" (ReviewService)
    connector,       \* "throwing" (Claude, OpenAI) | "ollama" | "sdk" (OpenAI SDK)
    agents,          \* the analyzers' names, in the order they were pushed
    changedFiles,    \* the files to review
    agentIdx,        \* position of the agent loop
    fileIdx,         \* position of the file loop
    allIssues,       \* the allIssues array
    analyzeCalls,    \* number of agent.analyze calls started
    callLog,         \* the settled analyze calls, in order
    handled,         \* the issue lists handed to the output step, in order
    cleaned,         \* TRUE once the cloned repository was removed
    vpc,             \* "loop" | "analyzing" | "fileOutput" | "output" | "cleanup"
                     \* | "done" | "exited"
    \* RepoService
    isCloned,        \* this.isCloned
    dirExists,       \* TRUE while this.repoDir exists on disk
    repoOp,          \* the method that is running, "none" between calls
    repoPc,          \* "ready" | "cleanup" (in this.cleanup()) | "cloning"
    lastClone,       \* how the most recent cloneRepository ended: "none" | "pending"
                     \* | "ok" | "failed"
    cleanupSince,    \* TRUE when a cleanup started after the last completed clone
    gitCalls,        \* number of calls made to this.gitService
    lastCall,        \* the last call that settled: method, isCloned at the call,
                     \* whether it called the git service, the error it rejected with
    repoOps,         \* number of calls made to the RepoService
    \* BaseAgent.createIssue
    clock,           \* Date.now()
    createdIssues,   \* the CodeIssues created so far, in order
    \* FileOutputHandler.handleOutput
    reportIssues,    \* the issues argument
    groupMode,       \* "byFile" | "byType" | "bySeverity" | "list"
    markdown,        \* the content written to the file: headings and issue entries
    fpc              \* "start" | "written" | "nothingWritten"

sortVars == <<issues, sortedIssues, resortedIssues, groupedIssues, step>>

diffVars == <<prDiff, queryFile, queryLine, position, resolved>>

prVars == <<prIssues, hpc, summary, summaryCalls, reviewCalls, comments, warned>>

retryVars == <<variant, fnKind, maxRetries, attempt, retries, delay, calls, failures,
               delays, lastError, thrown, result, events, rpc>>

parseVars == <<aiResponse, parserName, parsedIssues, parsedSummary, ppc>>

reviewVars == <<runner, connector, agents, changedFiles, agentIdx, fileIdx,
                allIssues, analyzeCalls, callLog, handled, cleaned, vpc>>

repoVars == <<isCloned, dirExists, repoOp, repoPc, lastClone, cleanupSince,
              gitCalls, lastCall, repoOps>>

idVars == <<clock, createdIssues>>

reportVars == <<reportIssues, groupMode, markdown, fpc>>

vars == <<sortVars, diffVars, prVars, retryVars, parseVars, reviewVars, repoVars,
          idVars, reportVars>>

\* what each part of the program leaves alone
exceptSort ==
    <<diffVars, prVars, retryVars, parseVars, reviewVars,
      repoVars, idVars, reportVars>>

exceptDiff ==
    <<sortVars, prVars, retryVars, parseVars, reviewVars,
      repoVars, idVars, reportVars>>

exceptPR ==
    <<sortVars, diffVars, retryVars, parseVars, reviewVars,
      repoVars, idVars, reportVars>>

exceptPRAndDiff ==
    <<sortVars, retryVars, parseVars, reviewVars,
      repoVars, idVars, reportVars>>

exceptRetry ==
    <<sortVars, diffVars, prVars, parseVars, reviewVars,
      repoVars, idVars, reportVars>>

exceptParse ==
    <<sortVars, diffVars, prVars, retryVars, reviewVars,
      repoVars, idVars, reportVars>>

exceptReview ==
    <<sortVars, diffVars, prVars, retryVars, parseVars,
      repoVars, idVars, reportVars>>

exceptRepo ==
    <<sortVars, diffVars, prVars, retryVars, parseVars, reviewVars,
      idVars, reportVars>>

exceptIds ==
    <<sortVars, diffVars, prVars, retryVars, parseVars, reviewVars,
      repoVars, reportVars>>

exceptReport ==
    <<sortVars, diffVars, prVars, retryVars, parseVars, reviewVars,
      repoVars, idVars>>

(***************************************************************************)
(* Issue lists for the sorting and grouping methods.  id is the index in   *)
(* the input array, so that equal-looking issues stay distinguishable.     *)
(***************************************************************************)
\* the analyzer that produces issues of a type (each analyzer's `name`)
AgentOfType(type) ==
    CASE type = "bug"          -> "BugDetection"
      [] type = "style"        -> "Style"
      [] type = "security"     -> "Security"
      [] type = "optimization" -> "optimization-agent"
      [] OTHER                 -> "AI"

Places == { [filePath |-> "b.ts", startLine |-> 1, type |-> "bug"],
            [filePath |-> "a.ts", startLine |-> 2, type |-> "style"],
            [filePath |-> "b.ts", startLine |-> 1, type |-> "optimization"] }

MkIssue(id, sev, place) ==
    [id |-> id, severity |-> sev, type |-> place.type, filePath |-> place.filePath,
     startLine |-> place.startLine, endLine |-> place.startLine,
     agent |-> AgentOfType(place.type)]

\* what one issue can look like: the pattern checks and the validating
\* parsers yield a severity of the enum; only OptimizationAgent's AI issues
\* carry the AI's own severity text
IssueShapes ==
    { sp \in SeverityTexts \X Places :
        sp[1] \notin IssueSeverity => sp[2].type = "optimization" }

\* the lists of n issues
IssueLists(n) ==
    { [i \in 1..n |-> MkIssue(i, sh[i][1], sh[i][2])] : sh \in [1..n -> IssueShapes] }

Files == {"a.ts", "b.ts"}

HunkHeaders == {Hunk(1, 1), Hunk(3, 4)}

DiffSymbols == HunkHeaders \cup {Body("+"), Body("-"), Body(" ")}

\* diffs of one file: a hunk header first, then any lines
DiffTexts(n) == { t \in [1..n -> DiffSymbols] : t[1] \in HunkHeaders }

IdleDiff ==
    /\ prDiff = [f \in Files |-> <<>>]
    /\ queryFile = "a.ts"
    /\ queryLine = 1
    /\ position = Null
    /\ resolved = FALSE

IdlePR ==
    /\ prIssues = <<>>
    /\ hpc = "idle"
    /\ summary = NoSummary
    /\ summaryCalls = 0
    /\ reviewCalls = 0
    /\ comments = <<>>
    /\ warned = <<>>

IdleRetry ==
    /\ variant = "loop"
    /\ fnKind = "makeRequest"
    /\ maxRetries = 0
    /\ attempt = 0
    /\ retries = 0
    /\ delay = 0
    /\ calls = 0
    /\ failures = <<>>
    /\ delays = <<>>
    /\ lastError = NoError
    /\ thrown = NoError
    /\ result = NoResult
    /\ events = <<>>
    /\ rpc = "idle"

IdleParse ==
    /\ aiResponse = Response("noJson", <<>>)
    /\ parserName = "AI"
    /\ parsedIssues = <<>>
    /\ parsedSummary = NoSummary
    /\ ppc = "idle"

IdleReview ==
    /\ runner = "command"
    /\ connector = "throwing"
    /\ agents = <<>>
    /\ changedFiles = <<>>
    /\ agentIdx = 1
    /\ fileIdx = 1
    /\ allIssues = <<>>
    /\ analyzeCalls = 0
    /\ callLog = <<>>
    /\ handled = <<>>
    /\ cleaned = FALSE
    /\ vpc = "idle"

\* no call on the RepoService has settled yet
NoCall == [op |-> "none", cloned |-> FALSE, gitCalled |-> FALSE, error |-> "none"]

IdleRepo ==
    /\ isCloned = FALSE
    /\ dirExists = FALSE
    /\ repoOp = "none"
    /\ repoPc = "idle"
    /\ lastClone = "none"
    /\ cleanupSince = FALSE
    /\ gitCalls = 0
    /\ lastCall = NoCall
    /\ repoOps = 0

IdleIds ==
    /\ clock = 0
    /\ createdIssues = <<>>

IdleReport ==
    /\ reportIssues = <<>>
    /\ groupMode = "list"
    /\ markdown = <<>>
    /\ fpc = "idle"

IdleLater == IdleRepo /\ IdleIds /\ IdleReport

IdleSort ==
    /\ issues = <<>>
    /\ sortedIssues = <<>>
    /\ resortedIssues = <<>>
    /\ groupedIssues = <<>>
    /\ step = "idle"

InitSort ==
    /\ \E n \in 0..MaxIssues : issues \in IssueLists(n)
    /\ sortedIssues = <<>>
    /\ resortedIssues = <<>>
    /\ groupedIssues = <<>>
    /\ step = "input"
    /\ IdleDiff /\ IdlePR /\ IdleRetry /\ IdleParse /\ IdleReview /\ IdleLater

\* const sortedIssues = this.sortIssuesBySeverity(issues)
SortIssues ==
    /\ step = "input"
    /\ sortedIssues' = sortIssuesBySeverity(issues)
    /\ issues' = ArgumentAfterSort(issues)
    /\ step' = "sorted"
    /\ UNCHANGED <<resortedIssues, groupedIssues>>
    /\ UNCHANGED exceptSort

\* the sort applied to its own output
SortAgain ==
    /\ step = "sorted"
    /\ resortedIssues' = sortIssuesBySeverity(sortedIssues)
    /\ sortedIssues' = ArgumentAfterSort(sortedIssues)
    /\ step' = "resorted"
    /\ UNCHANGED <<issues, groupedIssues>>
    /\ UNCHANGED exceptSort

GroupByFile ==
    /\ step = "input"
    /\ groupedIssues' = groupIssuesByFile(issues)
    /\ step' = "byFile"
    /\ UNCHANGED <<issues, sortedIssues, resortedIssues>>
    /\ UNCHANGED exceptSort

GroupByType ==
    /\ step = "input"
    /\ groupedIssues' = groupIssuesByType(issues)
    /\ step' = "byType"
    /\ UNCHANGED <<issues, sortedIssues, resortedIssues>>
    /\ UNCHANGED exceptSort

GroupBySeverity ==
    /\ step = "input"
    /\ groupedIssues' = groupIssuesBySeverity(issues)
    /\ step' = "bySeverity"
    /\ UNCHANGED <<issues, sortedIssues, resortedIssues>>
    /\ UNCHANGED exceptSort

NextSort == SortIssues \/ SortAgain \/ GroupByFile \/ GroupByType \/ GroupBySeverity

SpecSort == InitSort /\ [][NextSort]_vars

(***************************************************************************)
(* GitHubPROutputHandler.handleOutput.  The issues are any list the        *)
(* analyzers of the agents package return: AIAgent ("AI") reports issues   *)
(* of any type, BugDetectionAgent bugs, StyleAgent style issues, some of   *)
(* them without a line.                                                    *)
(***************************************************************************)
Reporters == { [agent |-> "AI", type |-> "bug"],
               [agent |-> "BugDetection", type |-> "bug"],
               [agent |-> "Style", type |-> "style"] }

Ranges == { [startLine |-> NoLine, endLine |-> NoLine],
            [startLine |-> 1, endLine |-> 2],
            [startLine |-> 2, endLine |-> 2] }

PRIssueShapes == Reporters \X Ranges \X {"critical", "info"}

MkPRIssue(id, shape) ==
    [id |-> id, severity |-> shape[3], type |-> shape[1].type, filePath |-> "a.ts",
     startLine |-> shape[2].startLine, endLine |-> shape[2].endLine,
     agent |-> shape[1].agent]

\* the lists of n issues
PRIssueLists(n) ==
    { [i \in 1..n |-> MkPRIssue(i, sh[i])] : sh \in [1..n -> PRIssueShapes] }

\* what octokit.pulls.get({mediaType: diff}) may answer
PRDiffSamples ==
    { [f \in Files |-> <<>>],
      [f \in Files |-> IF f = "a.ts" THEN <<Hunk(1, 1), Body(" "), Body("+")>> ELSE <<>>] }

InitPR ==
    /\ \E n \in 0..MaxPRIssues : prIssues \in PRIssueLists(n)
    /\ hpc = "start"
    /\ summary = NoSummary
    /\ summaryCalls = 0
    /\ reviewCalls = 0
    /\ comments = <<>>
    /\ warned = <<>>
    /\ IdleSort /\ IdleDiff /\ IdleRetry /\ IdleParse /\ IdleReview /\ IdleLater

\* await this.createSummaryComment(...) succeeds
PostSummary ==
    /\ hpc = "start"
    /\ summaryCalls' = summaryCalls + 1
    /\ summary' = IF Len(prIssues) = 0 THEN NoIssuesSummary ELSE generateSummary(prIssues)
    /\ hpc' = AfterSummary(prIssues)
    /\ UNCHANGED <<prIssues, reviewCalls, comments, warned>>
    /\ UNCHANGED exceptPR

\* octokit.issues.createComment rejects: createSummaryComment rethrows
PostSummaryFails ==
    /\ hpc = "start"
    /\ summaryCalls' = summaryCalls + 1
    /\ hpc' = "rejected"
    /\ UNCHANGED <<prIssues, summary, reviewCalls, comments, warned>>
    /\ UNCHANGED exceptPR

\* await this.createReviewComments(issues): the diff is fetched, the
\* comments are formatted and the review is created
CreateReview ==
    /\ hpc = "summarised"
    /\ \E d \in PRDiffSamples :
          /\ prDiff' = d
          /\ comments' = formatReviewComments(prIssues, d).comments
          /\ warned' = formatReviewComments(prIssues, d).warned
    /\ reviewCalls' = reviewCalls + 1
    /\ hpc' = "done"
    /\ UNCHANGED <<prIssues, summary, summaryCalls>>
    /\ UNCHANGED <<queryFile, queryLine, position, resolved>>
    /\ UNCHANGED exceptPRAndDiff

\* getPRDiff rejects: no review is attempted
GetPRDiffFails ==
    /\ hpc = "summarised"
    /\ hpc' = "rejected"
    /\ UNCHANGED <<prIssues, summary, summaryCalls, reviewCalls, comments, warned>>
    /\ UNCHANGED exceptPR

\* octokit.pulls.createReview rejects after the comments were formatted
CreateReviewFails ==
    /\ hpc = "summarised"
    /\ \E d \in PRDiffSamples :
          /\ prDiff' = d
          /\ warned' = formatReviewComments(prIssues, d).warned
    /\ reviewCalls' = reviewCalls + 1
    /\ hpc' = "rejected"
    /\ UNCHANGED <<prIssues, summary, summaryCalls, comments>>
    /\ UNCHANGED <<queryFile, queryLine, position, resolved>>
    /\ UNCHANGED exceptPRAndDiff

NextPR == PostSummary \/ PostSummaryFails \/ CreateReview \/ GetPRDiffFails
            \/ CreateReviewFails

SpecPR == InitPR /\ [][NextPR]_vars

(***************************************************************************)
(* One run of withRetry(fn).  Each invocation of fn resolves or rejects    *)
(* with a rate-limit error or another error.                               *)
(***************************************************************************)
Outcomes == {"ok", "rate429", "other"}

InitRetry ==
    /\ variant \in {"loop", "recursive"}
    /\ fnKind \in {"makeRequest", "wrapping"}
    /\ maxRetries \in 0..MaxRetriesSetting
    /\ attempt = 0
    /\ retries = maxRetries
    /\ delay = RetryDelay
    /\ calls = 0
    /\ failures = <<>>
    /\ delays = <<>>
    /\ lastError = NoError
    /\ thrown = NoError
    /\ result = NoResult
    /\ events = <<>>
    /\ rpc = "call"
    /\ IdleSort /\ IdleDiff /\ IdlePR /\ IdleParse /\ IdleReview /\ IdleLater

\* the loop condition holds and fn() is invoked
LoopInvoke ==
    /\ variant = "loop"
    /\ MayInvoke(rpc)
    /\ LoopCondition(attempt, maxRetries)
    /\ calls' = calls + 1
    /\ events' = Append(events, "call")
    /\ rpc' = "await"
    /\ UNCHANGED <<variant, fnKind, maxRetries, attempt, retries, delay, failures, delays,
                   lastError, thrown, result>>
    /\ UNCHANGED exceptRetry

\* the invocation settles: the rest of the loop body, up to the next await
\* of a delay, the return or the throw
LoopSettle(outcome) ==
    /\ variant = "loop"
    /\ rpc = "await"
    /\ IF outcome = "ok"
       THEN /\ rpc' = "resolved"
            /\ result' = ResultOf(calls)
            /\ events' = Append(events, "ok")
            /\ UNCHANGED <<failures, delays, lastError, thrown>>
       ELSE LET error == ErrorOf(ThrownKind(fnKind, outcome), calls) IN
            /\ failures' = Append(failures, error)
            /\ lastError' = error
            /\ UNCHANGED result
            /\ IF IsRateLimit(error)
               THEN /\ delays' = Append(delays, RateLimitDelay(attempt))
                    /\ events' = events \o <<"fail", "delay">>
                    /\ rpc' = "sleep"
                    /\ UNCHANGED thrown
               ELSE IF HasAttemptsLeft(attempt, maxRetries)
               THEN /\ delays' = Append(delays, OtherErrorDelay(attempt))
                    /\ events' = events \o <<"fail", "delay">>
                    /\ rpc' = "sleep"
                    /\ UNCHANGED thrown
               ELSE /\ thrown' = error
                    /\ events' = Append(events, "fail")
                    /\ rpc' = "rejected"
                    /\ UNCHANGED delays
    /\ UNCHANGED <<variant, fnKind, maxRetries, attempt, retries, delay, calls>>
    /\ UNCHANGED exceptRetry

\* the delay elapses: continue, attempt++
LoopDelayElapsed ==
    /\ variant = "loop"
    /\ rpc = "sleep"
    /\ attempt' = attempt + 1
    /\ events' = Append(events, "elapsed")
    /\ rpc' = "call"
    /\ UNCHANGED <<variant, fnKind, maxRetries, retries, delay, calls, failures, delays,
                   lastError, thrown, result>>
    /\ UNCHANGED exceptRetry

\* the loop condition fails: throw lastError || new Error('Unknown error ...')
LoopExhausted ==
    /\ variant = "loop"
    /\ rpc = "call"
    /\ ~LoopCondition(attempt, maxRetries)
    /\ thrown' = ExhaustedError(lastError)
    /\ rpc' = "rejected"
    /\ UNCHANGED <<variant, fnKind, maxRetries, attempt, retries, delay, calls, failures,
                   delays, lastError, result, events>>
    /\ UNCHANGED exceptRetry

\* one activation of the recursive withRetry invokes fn()
RecursiveInvoke ==
    /\ variant = "recursive"
    /\ MayInvoke(rpc)
    /\ calls' = calls + 1
    /\ events' = Append(events, "call")
    /\ rpc' = "await"
    /\ UNCHANGED <<variant, fnKind, maxRetries, attempt, retries, delay, failures, delays,
                   lastError, thrown, result>>
    /\ UNCHANGED exceptRetry

\* the invocation settles: the rest of the activation, up to its await of
\* the delay, its return or its throw
RecursiveSettle(outcome) ==
    /\ variant = "recursive"
    /\ rpc = "await"
    /\ IF outcome = "ok"
       THEN /\ rpc' = "resolved"
            /\ result' = ResultOf(calls)
            /\ events' = Append(events, "ok")
            /\ UNCHANGED <<failures, delays, thrown>>
       ELSE LET error == ErrorOf(ThrownKind(fnKind, outcome), calls) IN
            /\ failures' = Append(failures, error)
            /\ UNCHANGED result
            /\ IF NoRetriesLeft(retries)
               THEN /\ thrown' = error
                    /\ events' = Append(events, "fail")
                    /\ rpc' = "rejected"
                    /\ UNCHANGED delays
               ELSE /\ delays' = Append(delays, delay)
                    /\ events' = events \o <<"fail", "delay">>
                    /\ rpc' = "sleep"
                    /\ UNCHANGED thrown
    /\ UNCHANGED <<variant, fnKind, maxRetries, attempt, retries, delay, calls, lastError>>
    /\ UNCHANGED exceptRetry

\* the delay elapses: return this.withRetry(fn, retries - 1, delay * 2)
RecursiveDelayElapsed ==
    /\ variant = "recursive"
    /\ rpc = "sleep"
    /\ retries' = retries - 1
    /\ delay' = NextDelay(delay)
    /\ events' = Append(events, "elapsed")
    /\ rpc' = "call"
    /\ UNCHANGED <<variant, fnKind, maxRetries, attempt, calls, failures, delays,
                   lastError, thrown, result>>
    /\ UNCHANGED exceptRetry

NextRetry ==
    \/ LoopInvoke
    \/ \E outcome \in Outcomes : LoopSettle(outcome)
    \/ LoopDelayElapsed
    \/ LoopExhausted
    \/ RecursiveInvoke
    \/ \E outcome \in Outcomes : RecursiveSettle(outcome)
    \/ RecursiveDelayElapsed

SpecRetry == InitRetry /\ [][NextRetry]_vars

(***************************************************************************)
(* An analyzer's parser applied to one AI response, and the summary the    *)
(* output handlers write for the issues it returned.                       *)
(***************************************************************************)
RawItems == [severity : RawSeverities, type : RawTypes]

\* the responses with at most n raw issues
Responses(n) ==
    { Response(f, <<>>) : f \in {"noJson", "invalidJson", "issuesNotArray"} }
      \cup { Response(f, items) :
                f \in {"array", "object"},
                items \in UNION { [1..k -> RawItems] : k \in 1..n } }

InitParse ==
    /\ aiResponse \in Responses(MaxItems)
    /\ parserName \in Parsers
    /\ parsedIssues = <<>>
    /\ parsedSummary = NoSummary
    /\ ppc = "input"
    /\ IdleSort /\ IdleDiff /\ IdlePR /\ IdleRetry /\ IdleReview /\ IdleLater

\* return this.parseResponse(response, filePath)
ParseResponse ==
    /\ ppc = "input"
    /\ parsedIssues' = ParseBy(parserName, aiResponse, "a.ts")
    /\ ppc' = "parsed"
    /\ UNCHANGED <<aiResponse, parserName, parsedSummary>>
    /\ UNCHANGED exceptParse

\* generateSummary(issues) on the issues of the analyzer
SummariseParsed ==
    /\ ppc = "parsed"
    /\ parsedSummary' = generateSummary(parsedIssues)
    /\ ppc' = "summarised"
    /\ UNCHANGED <<aiResponse, parserName, parsedIssues>>
    /\ UNCHANGED exceptParse

NextParse == ParseResponse \/ SummariseParsed

SpecParse == InitParse /\ [][NextParse]_vars

(***************************************************************************)
(* A review run: the review command (agents outside, files inside, one     *)
(* handleOutput at the end) and ReviewService.reviewPullRequest (files     *)
(* outside, agents inside, one review comment per file).                   *)
(***************************************************************************)
\* the order in which the review command pushes the selected agents
CommandAgents == <<"Security", "Style", "BugDetection", "optimization-agent">>

\* the agents array for each --agents selection of at most n analyzers
AgentLists(n) ==
    { SelectSeq(CommandAgents, LAMBDA a : a \in chosen) :
        chosen \in { c \in SUBSET {"Security", "Style", "BugDetection", "optimization-agent"} :
                        c # {} /\ Cardinality(c) <= n } }

\* [aiAgent, styleAgent] of the older review command
ServiceAgents == <<"AI Analysis", "Style Checker">>

FileNames == <<"a.ts", "b.ts", "c.ts", "d.ts">>

\* what the AI service does for one analyze call
ReviewOutcomes ==
    { Fails,
      Response("noJson", <<>>),
      Response("object", <<[severity |-> "critical", type |-> "bug"]>>) }

InitReview ==
    /\ runner \in {"command", "service"}
    /\ IF runner = "command"
       THEN /\ agents \in AgentLists(MaxAgents)
            /\ connector \in {"throwing", "ollama"}
       ELSE /\ agents = ServiceAgents
            /\ connector = "sdk"
    /\ \E n \in 0..MaxFiles : changedFiles = SubSeq(FileNames, 1, n)
    /\ agentIdx = 1
    /\ fileIdx = 1
    /\ allIssues = <<>>
    /\ analyzeCalls = 0
    /\ callLog = <<>>
    /\ handled = <<>>
    /\ cleaned = FALSE
    /\ vpc = IF changedFiles # <<>> THEN "loop"
             ELSE IF runner = "command" THEN "output" ELSE "cleanup"
    /\ IdleSort /\ IdleDiff /\ IdlePR /\ IdleRetry /\ IdleParse /\ IdleLater

\* agent.analyze(file, fileContent, outputDir) is called
StartAnalyze ==
    /\ MayAnalyze(vpc)
    /\ analyzeCalls' = analyzeCalls + 1
    /\ vpc' = "analyzing"
    /\ UNCHANGED <<runner, connector, agents, changedFiles, agentIdx, fileIdx,
                   allIssues, callLog, handled, cleaned>>
    /\ UNCHANGED exceptReview

\* the analyze call settles: its issues are pushed and the loops advance, or
\* its rejection leaves the loops and ends in process.exit(1)
SettleAnalyze(aiOutcome) ==
    /\ vpc = "analyzing"
    /\ LET agentName == agents[agentIdx]
           file == changedFiles[fileIdx]
           res == analyze(agentName, connector, file, aiOutcome)
           entry == [agent |-> agentName, file |-> file,
                     aiFailed |-> UsesAI(agentName) /\ aiOutcome = Fails,
                     surfaced |-> /\ UsesAI(agentName)
                                  /\ generateResponse(connector, aiOutcome).rejected,
                     rejected |-> res.rejected,
                     issues |-> res.issues]
       IN /\ callLog' = Append(callLog, entry)
          /\ IF res.rejected
             THEN /\ vpc' = "exited"
                  /\ UNCHANGED <<allIssues, agentIdx, fileIdx>>
             ELSE /\ allIssues' = Accumulate(allIssues, res.issues)
                  /\ IF runner = "command"
                     THEN IF fileIdx < Len(changedFiles)
                          THEN /\ fileIdx' = fileIdx + 1
                               /\ vpc' = "loop"
                               /\ UNCHANGED agentIdx
                          ELSE IF agentIdx < Len(agents)
                          THEN /\ agentIdx' = agentIdx + 1
                               /\ fileIdx' = 1
                               /\ vpc' = "loop"
                          ELSE /\ vpc' = "output"
                               /\ UNCHANGED <<agentIdx, fileIdx>>
                     ELSE IF agentIdx < Len(agents)
                          THEN /\ agentIdx' = agentIdx + 1
                               /\ vpc' = "loop"
                               /\ UNCHANGED fileIdx
                          ELSE /\ vpc' = "fileOutput"
                               /\ UNCHANGED <<agentIdx, fileIdx>>
    /\ UNCHANGED <<runner, connector, agents, changedFiles, analyzeCalls, handled,
                   cleaned>>
    /\ UNCHANGED exceptReview

\* ReviewService: if (allIssues.length > 0) createReviewComment(...) for the
\* file, then the next file with a new allIssues
PostFileComment ==
    /\ vpc = "fileOutput"
    /\ handled' = IF allIssues # <<>>
                  THEN Append(handled, [file |-> changedFiles[fileIdx],
                                        issues |-> allIssues])
                  ELSE handled
    /\ allIssues' = <<>>
    /\ agentIdx' = 1
    /\ IF fileIdx < Len(changedFiles)
       THEN /\ fileIdx' = fileIdx + 1
            /\ vpc' = "loop"
       ELSE /\ vpc' = "cleanup"
            /\ UNCHANGED fileIdx
    /\ UNCHANGED <<runner, connector, agents, changedFiles, analyzeCalls, callLog,
                   cleaned>>
    /\ UNCHANGED exceptReview

\* review command: await outputHandler.handleOutput(allIssues) resolves
HandleOutput ==
    /\ vpc = "output"
    /\ handled' = Append(handled, [file |-> "*", issues |-> allIssues])
    /\ vpc' = "cleanup"
    /\ UNCHANGED <<runner, connector, agents, changedFiles, agentIdx, fileIdx,
                   allIssues, analyzeCalls, callLog, cleaned>>
    /\ UNCHANGED exceptReview

\* review command: handleOutput rejects, the catch blocks end in process.exit(1)
HandleOutputFails ==
    /\ vpc = "output"
    /\ handled' = Append(handled, [file |-> "*", issues |-> allIssues])
    /\ vpc' = "exited"
    /\ UNCHANGED <<runner, connector, agents, changedFiles, agentIdx, fileIdx,
                   allIssues, analyzeCalls, callLog, cleaned>>
    /\ UNCHANGED exceptReview

\* await repoService.cleanup() / fs.rmSync(this.outputDir, ...)
Cleanup ==
    /\ vpc = "cleanup"
    /\ cleaned' = TRUE
    /\ vpc' = "done"
    /\ UNCHANGED <<runner, connector, agents, changedFiles, agentIdx, fileIdx,
                   allIssues, analyzeCalls, callLog, handled>>
    /\ UNCHANGED exceptReview

NextReview ==
    \/ StartAnalyze
    \/ \E aiOutcome \in ReviewOutcomes : SettleAnalyze(aiOutcome)
    \/ PostFileComment
    \/ HandleOutput
    \/ HandleOutputFails
    \/ Cleanup

SpecReview == InitReview /\ [][NextReview]_vars

(***************************************************************************)
(* Position resolution: findPositionInDiff on a PR diff in which a.ts has  *)
(* a diff and b.ts has none.                                               *)
(***************************************************************************)
\* the diff "@@ -1,3 +1,4 @@", " line1", "-line2", "+line2-changed",
\* "+line2b", " line3"
ExampleDiff ==
    <<Hunk(1, 1), Body(" "), Body("-"), Body("+"), Body("+"), Body(" ")>>

InitDiff ==
    /\ \/ \E n \in 1..MaxDiffLines : \E t \in DiffTexts(n) :
             prDiff = [f \in Files |-> IF f = "a.ts" THEN t ELSE <<>>]
       \/ prDiff = [f \in Files |-> IF f = "a.ts" THEN ExampleDiff ELSE <<>>]
    /\ queryFile \in Files
    /\ queryLine \in 1..(MaxDiffLines + 2)
    /\ position = Null
    /\ resolved = FALSE
    /\ IdleSort /\ IdlePR /\ IdleRetry /\ IdleParse /\ IdleReview /\ IdleLater

\* const position = this.findPositionInDiff(diff, filePath, startLine)
ResolvePosition ==
    /\ ~resolved
    /\ position' = findPositionInDiff(prDiff, queryFile, queryLine)
    /\ resolved' = TRUE
    /\ UNCHANGED <<prDiff, queryFile, queryLine>>
    /\ UNCHANGED exceptDiff

NextDiff == ResolvePosition

SpecDiff == InitDiff /\ [][NextDiff]_vars

\* C1: resolution returns a position only for a line present in the file's
\* diff, and NotFound (null) for every line that does not occur in it.
C1_NotFoundWhenAbsent ==
    resolved =>
        (position # Null => LineInDiff(parse(prDiff[queryFile]), queryLine))

\* C2: resolving the new-file line number of an added line returns the
\* diffPosition the parser assigned to that line.
C2_RoundTrip ==
    resolved =>
        \A k \in 1..Len(prDiff[queryFile]) :
            LET dl == parse(prDiff[queryFile])[k] IN
            (dl.role = "added" /\ dl.newLineNumber = queryLine)
                => position = dl.diffPosition

\* C23: the position given to a line of the new file is the number of the
\* physical line of the diff that carries it, hunk headers counted: the
\* k-th line of the diff has position k, whatever its role and whichever
\* hunk it is in.
C23_PositionIsPhysicalLine ==
    resolved =>
        \A k \in 1..Len(prDiff[queryFile]) :
            LET dl == parse(prDiff[queryFile])[k] IN
            (dl.role \in {"added", "context"} /\ dl.newLineNumber = queryLine)
                => position = k

\* C24: in the example diff the lines are tagged context 1/1 at position 2,
\* removed 2 at 3, added 2 at 4, added 3 at 5, context 3/4 at 6, and
\* new-file line 3 resolves to position 5.
C24_ExampleResolvesToFive ==
    (/\ resolved
     /\ prDiff["a.ts"] = ExampleDiff
     /\ queryFile = "a.ts"
     /\ queryLine = 3) =>
        /\ parse(ExampleDiff) =
              <<DiffLine("hunkHeader", Null, Null, 1),
                DiffLine("context", 1, 1, 2),
                DiffLine("removed", 2, Null, 3),
                DiffLine("added", Null, 2, 4),
                DiffLine("added", Null, 3, 5),
                DiffLine("context", 3, 4, 6)>>
        /\ position = 5

(***************************************************************************)
(* RepoService: calls are made one after the other, as the review command  *)
(* awaits each; the file system and the git service may fail.              *)
(***************************************************************************)
GuardedMethods == {"checkoutBranch", "getChangedFiles", "getFileContent"}

NotCloned == "Repository not cloned yet"

InitRepo ==
    /\ isCloned = FALSE
    /\ dirExists \in BOOLEAN
    /\ repoOp = "none"
    /\ repoPc = "ready"
    /\ lastClone = "none"
    /\ cleanupSince = FALSE
    /\ gitCalls = 0
    /\ lastCall = NoCall
    /\ repoOps = 0
    /\ IdleSort /\ IdleDiff /\ IdlePR /\ IdleRetry /\ IdleParse /\ IdleReview
    /\ IdleIds /\ IdleReport

\* cloneRepository(repoUrl) is called and enters `await this.cleanup()`
CallCloneRepository ==
    /\ repoPc = "ready"
    /\ repoOps < MaxRepoCalls
    /\ repoOps' = repoOps + 1
    /\ repoOp' = "cloneRepository"
    /\ repoPc' = "cleanup"
    /\ lastClone' = "pending"
    /\ cleanupSince' = TRUE
    /\ UNCHANGED <<isCloned, dirExists, gitCalls, lastCall>>
    /\ UNCHANGED exceptRepo

\* cleanup() is called
CallCleanup ==
    /\ repoPc = "ready"
    /\ repoOps < MaxRepoCalls
    /\ repoOps' = repoOps + 1
    /\ repoOp' = "cleanup"
    /\ repoPc' = "cleanup"
    /\ cleanupSince' = TRUE
    /\ UNCHANGED <<isCloned, dirExists, lastClone, gitCalls, lastCall>>
    /\ UNCHANGED exceptRepo

\* cleanup: pathExists and remove resolve, then this.isCloned = false; a
\* cleanup inside cloneRepository goes on to gitService.cloneRepository
CleanupResolves ==
    /\ repoPc = "cleanup"
    /\ dirExists' = FALSE
    /\ isCloned' = FALSE
    /\ IF repoOp = "cloneRepository"
       THEN /\ repoPc' = "cloning"
            /\ gitCalls' = gitCalls + 1
            /\ UNCHANGED <<repoOp, lastCall>>
       ELSE /\ repoPc' = "ready"
            /\ repoOp' = "none"
            /\ lastCall' = [op |-> "cleanup", cloned |-> isCloned,
                            gitCalled |-> FALSE, error |-> "none"]
            /\ UNCHANGED gitCalls
    /\ UNCHANGED <<lastClone, cleanupSince, repoOps>>
    /\ UNCHANGED exceptRepo

\* cleanup: fs.remove rejects, so `this.isCloned = false` is not reached and
\* the caller (cleanup or cloneRepository) rejects
CleanupRejects ==
    /\ repoPc = "cleanup"
    /\ dirExists
    /\ repoPc' = "ready"
    /\ repoOp' = "none"
    /\ lastClone' = IF repoOp = "cloneRepository" THEN "failed" ELSE lastClone
    /\ lastCall' = [op |-> repoOp, cloned |-> isCloned, gitCalled |-> FALSE,
                    error |-> "fs"]
    /\ UNCHANGED <<isCloned, dirExists, cleanupSince, gitCalls, repoOps>>
    /\ UNCHANGED exceptRepo

\* gitService.cloneRepository resolves, then this.isCloned = true
CloneResolves ==
    /\ repoPc = "cloning"
    /\ dirExists' = TRUE
    /\ isCloned' = TRUE
    /\ lastClone' = "ok"
    /\ cleanupSince' = FALSE
    /\ repoPc' = "ready"
    /\ repoOp' = "none"
    /\ lastCall' = [op |-> "cloneRepository", cloned |-> isCloned,
                    gitCalled |-> TRUE, error |-> "none"]
    /\ UNCHANGED <<gitCalls, repoOps>>
    /\ UNCHANGED exceptRepo

\* gitService.cloneRepository rejects; git may have created the directory
CloneRejects ==
    /\ repoPc = "cloning"
    /\ dirExists' \in BOOLEAN
    /\ lastClone' = "failed"
    /\ repoPc' = "ready"
    /\ repoOp' = "none"
    /\ lastCall' = [op |-> "cloneRepository", cloned |-> isCloned,
                    gitCalled |-> TRUE, error |-> "git"]
    /\ UNCHANGED <<isCloned, cleanupSince, gitCalls, repoOps>>
    /\ UNCHANGED exceptRepo

\* checkoutBranch, getChangedFiles, getFileContent: reject when
\* !this.isCloned, otherwise await the git service's method
CallGuarded(method, gitOk) ==
    /\ repoPc = "ready"
    /\ repoOps < MaxRepoCalls
    /\ repoOps' = repoOps + 1
    /\ IF ~isCloned
       THEN /\ lastCall' = [op |-> method, cloned |-> FALSE, gitCalled |-> FALSE,
                            error |-> NotCloned]
            /\ UNCHANGED gitCalls
       ELSE /\ gitCalls' = gitCalls + 1
            /\ lastCall' = [op |-> method, cloned |-> TRUE, gitCalled |-> TRUE,
                            error |-> IF gitOk THEN "none" ELSE "git"]
    /\ UNCHANGED <<isCloned, dirExists, repoOp, repoPc, lastClone, cleanupSince>>
    /\ UNCHANGED exceptRepo

NextRepo ==
    \/ CallCloneRepository
    \/ CallCleanup
    \/ CleanupResolves
    \/ CleanupRejects
    \/ CloneResolves
    \/ CloneRejects
    \/ \E method \in GuardedMethods, gitOk \in BOOLEAN : CallGuarded(method, gitOk)

SpecRepo == InitRepo /\ [][NextRepo]_vars

(***************************************************************************)
(* The CodeIssues created during one run.  The agents derived from         *)
(* BaseAgent call createIssue, several times within one millisecond when   *)
(* one line or one file yields several findings.                           *)
(***************************************************************************)
\* the agents that create issues with BaseAgent.createIssue, and the type
\* each passes
BaseAgents == {"Security", "Style"}

TypeOf(agentName) == IF agentName = "Security" THEN "security" ELSE "style"

IdFilePaths == {"src/a.ts", "lib/a.ts", "src/b.ts"}

IdLines == {NoLine, 1}

InitIds ==
    /\ clock = 0
    /\ createdIssues = <<>>
    /\ IdleSort /\ IdleDiff /\ IdlePR /\ IdleRetry /\ IdleParse /\ IdleReview
    /\ IdleRepo /\ IdleReport

\* this.createIssue(title, description, type, severity, filePath, startLine, ...)
CreateIssue(agentName, title, filePath, line) ==
    /\ Len(createdIssues) < MaxCreated
    /\ createdIssues' =
          Append(createdIssues,
                 [id |-> generateIssueId(agentName, TypeOf(agentName), filePath,
                                         line, clock),
                  title |-> title, type |-> TypeOf(agentName),
                  filePath |-> filePath, startLine |-> line,
                  agent |-> agentName])
    /\ UNCHANGED clock
    /\ UNCHANGED exceptIds

\* OptimizationAgent.parseAIResponse: id: uuidv4()
CreateParsedIssue(filePath, line) ==
    /\ Len(createdIssues) < MaxCreated
    /\ createdIssues' =
          Append(createdIssues,
                 [id |-> uuidv4(Len(createdIssues) + 1),
                  title |-> "Optimization", type |-> "optimization",
                  filePath |-> filePath, startLine |-> line,
                  agent |-> "optimization-agent"])
    /\ UNCHANGED clock
    /\ UNCHANGED exceptIds

\* a millisecond passes
Tick ==
    /\ clock < MaxClock
    /\ clock' = clock + 1
    /\ UNCHANGED createdIssues
    /\ UNCHANGED exceptIds

NextIds ==
    \/ \E agentName \in BaseAgents, title \in {"Hardcoded password", "Hardcoded API key"},
          filePath \in IdFilePaths, line \in IdLines :
            CreateIssue(agentName, title, filePath, line)
    \/ \E filePath \in IdFilePaths, line \in IdLines : CreateParsedIssue(filePath, line)
    \/ Tick

SpecIds == InitIds /\ [][NextIds]_vars

(***************************************************************************)
(* Properties of the PR review comments.                                   *)
(***************************************************************************)
\* the dedup equivalence of spec section 4.4: same type, same file,
\* overlapping inclusive [startLine, endLine] ranges
Equivalent(a, b) ==
    /\ a.type = b.type
    /\ a.filePath = b.filePath
    /\ a.startLine # NoLine /\ b.startLine # NoLine
    /\ a.startLine <= b.endLine
    /\ b.startLine <= a.endLine

\* index pairs of equivalent issues reported by different analyzers
EquivalentPairs ==
    { p \in (1..Len(prIssues)) \X (1..Len(prIssues)) :
        /\ p[1] < p[2]
        /\ Equivalent(prIssues[p[1]], prIssues[p[2]])
        /\ prIssues[p[1]].agent # prIssues[p[2]].agent }

CommentsFor(ids) == { c \in 1..Len(comments) : comments[c].body.id \in ids }

\* the analyzer names a comment body lists
AgentsListed(comment) == {comment.body.agent}

C8_NoSilentDrop ==
    hpc = "done" =>
        /\ summary.total = Len(prIssues)
        /\ \A i \in 1..Len(prIssues) :
              \/ CommentsFor({prIssues[i].id}) # {}
              \/ \E w \in 1..Len(warned) : warned[w] = prIssues[i].id

\* C29: handleOutput attempts the summary comment exactly once, before
\* anything else; it creates a review at most once and only after the
\* summary was posted, and none when the issue list is empty or when
\* posting the summary failed.
C29_OneSummaryThenAtMostOneReview ==
    hpc # "idle" =>
        /\ summaryCalls = IF hpc = "start" THEN 0 ELSE 1
        /\ reviewCalls <= 1
        /\ reviewCalls = 1 => (summaryCalls = 1 /\ summary # NoSummary)
        /\ prIssues = <<>> => reviewCalls = 0
        /\ (hpc = "rejected" /\ summary = NoSummary) => reviewCalls = 0

\* the summary of a list with issues was posted, then the review created
C29_Witness ==
    /\ hpc = "done"
    /\ prIssues # <<>>
    /\ summaryCalls = 1
    /\ reviewCalls = 1
    /\ summary = generateSummary(prIssues)

(***************************************************************************)
(* Properties of withRetry.                                                *)
(***************************************************************************)
\* C9 as stated: in both implementations fn is invoked at most maxRetries
\* times in one run.
C9_AtMostMaxAttempts ==
    rpc # "idle" => calls <= maxRetries

\* C9 amended: the loop variant invokes fn at most maxRetries times, the
\* recursive variant at most maxRetries + 1 times (one call and maxRetries
\* retries); a run that rejects after failures has made exactly that many
\* invocations.
C9_AttemptBound ==
    /\ variant = "loop" /\ rpc # "idle" =>
          /\ calls <= maxRetries
          /\ rpc = "rejected" => calls = maxRetries
    /\ variant = "recursive" /\ rpc # "idle" =>
          /\ calls <= maxRetries + 1
          /\ rpc = "rejected" => calls = maxRetries + 1

\* the recursive variant, at the default setting, rejected after one
\* invocation more than maxRetries
C9_Witness ==
    /\ variant = "recursive"
    /\ maxRetries = DefaultMaxRetries
    /\ rpc = "rejected"
    /\ calls = DefaultMaxRetries + 1

C11_ExponentialDelay ==
    rpc # "idle" =>
        \A k \in 1..Len(delays) :
            ~IsRateLimit(failures[k]) => delays[k] = RetryDelay * Pow2(k - 1)

\* C11 amended: in the loop variant every failure that is not a rate limit
\* and is not the last permitted attempt is followed by the constant delay
\* retryDelay; in the recursive variant the delay after the k-th failure, of
\* whatever kind, is retryDelay * 2^(k-1).
C11_OtherErrorDelay ==
    /\ variant = "loop" /\ rpc # "idle" =>
          \A k \in 1..Len(failures) :
              ~IsRateLimit(failures[k]) /\ k < maxRetries
                  => (Len(delays) >= k /\ delays[k] = RetryDelay)
    /\ variant = "recursive" /\ rpc # "idle" =>
          /\ \A k \in 1..Len(delays) : delays[k] = RetryDelay * Pow2(k - 1)
          /\ \A k \in 1..Len(failures) : k <= maxRetries => Len(delays) >= k

\* the loop variant slept twice after two errors that are not rate limits
C11_Witness ==
    /\ variant = "loop"
    /\ Len(failures) >= 2
    /\ ~IsRateLimit(failures[1]) /\ ~IsRateLimit(failures[2])
    /\ Len(delays) >= 2
    /\ delays[1] = RetryDelay /\ delays[2] = RetryDelay

\* C12: a run of the loop variant in which every permitted attempt failed
\* rejects with the error of its last attempt, whatever the kinds of the
\* failures.
C12_LastErrorPropagated ==
    variant = "loop" /\ rpc = "rejected" /\ calls > 0 =>
        /\ Len(failures) = calls
        /\ calls = maxRetries
        /\ thrown = failures[calls]
        /\ \A k \in 1..(calls - 1) : thrown # failures[k]

\* three attempts failed, the last one with a rate-limit error, and the run
\* rejected after the loop
C12_Witness ==
    /\ variant = "loop"
    /\ rpc = "rejected"
    /\ calls = 3
    /\ IsRateLimit(failures[3])
    /\ ~IsRateLimit(failures[1])
    /\ thrown = failures[3]

\* C13: with maxRetries = 3, a run whose first two attempts fail with a
\* rate-limit signal (an AxiosError of status 429) sleeps exactly twice, the second delay longer than the
\* first, is not rejected, and when its third attempt succeeds it resolves
\* with that attempt's result.
C13_TwoRateLimitsThenSuccess ==
    (/\ rpc # "idle"
     /\ maxRetries = 3
     /\ Len(failures) = 2
     /\ failures[1].kind = "rate429" /\ failures[2].kind = "rate429")
        => /\ Len(delays) = 2
           /\ delays[2] > delays[1]
           /\ rpc # "rejected"
           /\ rpc = "resolved" => result = ResultOf(3)

\* the loop variant resolved at the third attempt after two rate limits
C13_Witness ==
    /\ variant = "loop"
    /\ maxRetries = 3
    /\ rpc = "resolved"
    /\ result = ResultOf(3)
    /\ Len(failures) = 2
    /\ failures[1].kind = "rate429" /\ failures[2].kind = "rate429"
    /\ Len(delays) = 2

\* the number of invocations of fn that have not settled
InFlight ==
    Cardinality({ e \in 1..Len(events) : events[e] = "call" })
      - Cardinality({ e \in 1..Len(events) : events[e] \in {"ok", "fail"} })

\* C14: at most one invocation of fn is in flight, and every invocation
\* but the first comes right after a delay has elapsed that followed the
\* failure of the invocation before it.
C14_SequentialAttempts ==
    rpc # "idle" =>
        /\ InFlight \in {0, 1}
        /\ InFlight = 1 <=> rpc = "await"
        /\ \A e \in 1..Len(events) :
              events[e] = "call" /\ e > 1 =>
                  /\ e > 4
                  /\ events[e - 1] = "elapsed"
                  /\ events[e - 2] = "delay"
                  /\ events[e - 3] = "fail"
                  /\ events[e - 4] = "call"

\* a third invocation is in flight after two failures and two delays
C14_Witness ==
    /\ rpc = "await"
    /\ calls = 3
    /\ Len(failures) = 2
    /\ Len(delays) = 2

\* C25: with the function ClaudeConnector and OpenAIConnector give to
\* withRetry, the delay after the k-th attempt, when the API answered it
\* with HTTP 429, is the rate-limit delay retryDelay * k.
C25_Http429GetsRateLimitDelay ==
    variant = "loop" /\ fnKind = "wrapping" /\ rpc # "idle" =>
        \A k \in 1..Len(failures) :
            failures[k].kind \in {"rate429", "plain429"}
                => (Len(delays) >= k /\ delays[k] = RetryDelay * k)

\* C26: a run of withRetry that fails has slept once less than it has
\* invoked fn, whatever the errors were.
C26_NoSleepAfterLastAttempt ==
    rpc = "rejected" /\ calls > 0 => Len(delays) = calls - 1

(***************************************************************************)
(* Properties of a review run.                                             *)
(***************************************************************************)
\* the issues of the settled analyze calls log[k..], one after the other
RECURSIVE IssuesOf(_, _)
IssuesOf(log, k) ==
    IF k > Len(log) THEN <<>> ELSE log[k].issues \o IssuesOf(log, k + 1)

\* the settled analyze calls on one file
CallsOn(file) == SelectSeq(callLog, LAMBDA e : e.file = file)

AllPairs == Len(agents) * Len(changedFiles)

\* C15: a run in which an analyzer's AI call failed still analyzes every
\* (analyzer, file) pair and, in the review command, still reaches the
\* output step.
C15_FailureDoesNotAbort ==
    (/\ vpc \in {"done", "exited"}
     /\ \E k \in 1..Len(callLog) : callLog[k].aiFailed)
        => /\ Len(callLog) = AllPairs
           /\ runner = "command" => Len(handled) = 1

\* C16: an analyze call whose AI request failed after the retries saw the
\* failure as a rejection, settled with its pattern issues alone (an empty
\* AI contribution), and so returned no issue that describes the failure.
C16_FailureYieldsEmptyContribution ==
    \A k \in 1..Len(callLog) :
        callLog[k].aiFailed =>
            /\ callLog[k].surfaced
            /\ ~callLog[k].rejected
            /\ callLog[k].issues = PatternIssues(callLog[k].agent, callLog[k].file)

\* C18: at most one analyze call is in flight, and the calls are made in
\* loop order: in the review command agent by agent and, for each agent,
\* file by file; in ReviewService file by file and, for each file, agent by
\* agent.
C18_OneAnalyzeAtATime ==
    vpc # "idle" =>
        /\ analyzeCalls - Len(callLog) \in {0, 1}
        /\ analyzeCalls - Len(callLog) = 1 <=> vpc = "analyzing"
        /\ \A k \in 1..Len(callLog) :
              LET nf == Len(changedFiles)
                  na == Len(agents)
              IN IF runner = "command"
                 THEN /\ callLog[k].agent = agents[((k - 1) \div nf) + 1]
                      /\ callLog[k].file = changedFiles[((k - 1) % nf) + 1]
                 ELSE /\ callLog[k].file = changedFiles[((k - 1) \div na) + 1]
                      /\ callLog[k].agent = agents[((k - 1) % na) + 1]

\* the fourth analyze call of a run is in flight, three have settled
C18_Witness ==
    /\ vpc = "analyzing"
    /\ analyzeCalls = 4
    /\ Len(callLog) = 3
    /\ callLog[1].agent # callLog[3].agent

\* C19 as stated: the output step runs at most once in a run, after every
\* (analyzer, file) pair was analyzed, with the issues of all pairs, each
\* pair's issues once.
C19_OutputOnceOverAll ==
    vpc # "idle" =>
        /\ Len(handled) <= 1
        /\ handled # <<>> =>
              /\ Len(callLog) = AllPairs
              /\ handled[1].issues = IssuesOf(callLog, 1)

\* C19 amended: the review command hands the issues of all pairs, each
\* pair's once, to one handleOutput call after the loops; ReviewService
\* posts one comment per file that has issues, after every analyzer ran on
\* that file, with the issues of that file alone.
C19_OutputAfterAnalysis ==
    /\ runner = "command" /\ vpc # "idle" =>
          /\ Len(handled) <= 1
          /\ vpc \in {"cleanup", "done"} => Len(handled) = 1
          /\ handled # <<>> =>
                /\ Len(callLog) = AllPairs
                /\ handled[1].issues = IssuesOf(callLog, 1)
    /\ runner = "service" /\ vpc # "idle" =>
          /\ Len(handled) <= Len(changedFiles)
          /\ \A j \in 1..Len(handled) :
                /\ handled[j].issues # <<>>
                /\ Len(CallsOn(handled[j].file)) = Len(agents)
                /\ handled[j].issues = IssuesOf(CallsOn(handled[j].file), 1)
                /\ \A i \in 1..(j - 1) : handled[i].file # handled[j].file

\* the review command handed over, in one call, issues of two analyzers
\* found in two files
C19_Witness ==
    /\ runner = "command"
    /\ Len(handled) = 1
    /\ Len(callLog) = 4
    /\ \E i, j \in 1..Len(handled[1].issues) :
          /\ handled[1].issues[i].agent # handled[1].issues[j].agent
          /\ handled[1].issues[i].filePath # handled[1].issues[j].filePath

\* C28: a review command that has ended, with handleOutput resolved or with
\* an analyzer or the output handler rejecting, has cleaned up the clone.
C28_CleanupOnEveryPath ==
    runner = "command" /\ vpc \in {"done", "exited"} => cleaned

(***************************************************************************)
(* Properties of the RepoService.                                          *)
(***************************************************************************)
\* C27: between calls, isCloned is true only if the most recent
\* cloneRepository completed successfully and no cleanup started since; a
\* guarded method called while isCloned is false rejects with 'Repository
\* not cloned yet' without calling the git service; after a failed
\* cloneRepository isCloned is false.
C27_IsClonedMeansCloned ==
    repoPc = "ready" =>
        /\ isCloned => (lastClone = "ok" /\ ~cleanupSince)
        /\ (lastCall.op \in GuardedMethods /\ ~lastCall.cloned)
              => (~lastCall.gitCalled /\ lastCall.error = NotCloned)
        /\ lastClone = "failed" => ~isCloned

(***************************************************************************)
(* FileOutputHandler.handleOutput on any issue list of the analyzers, in   *)
(* each grouping mode.                                                     *)
(***************************************************************************)
GroupModes == {"byFile", "byType", "bySeverity", "list"}

InitReport ==
    /\ \E n \in 0..MaxReportIssues : reportIssues \in IssueLists(n)
    /\ groupMode \in GroupModes
    /\ markdown = <<>>
    /\ fpc = "start"
    /\ IdleSort /\ IdleDiff /\ IdlePR /\ IdleRetry /\ IdleParse /\ IdleReview
    /\ IdleRepo /\ IdleIds

\* if (issues.length === 0) { console.log('No issues found.'); return; }
NothingToWrite ==
    /\ fpc = "start"
    /\ Len(reportIssues) = 0
    /\ fpc' = "nothingWritten"
    /\ UNCHANGED <<reportIssues, groupMode, markdown>>
    /\ UNCHANGED exceptReport

\* generateMarkdown(issues), ensureDir, writeFile
WriteReport ==
    /\ fpc = "start"
    /\ Len(reportIssues) # 0
    /\ markdown' = generateMarkdown(reportIssues, groupMode)
    /\ fpc' = "written"
    /\ UNCHANGED <<reportIssues, groupMode>>
    /\ UNCHANGED exceptReport

NextReport == NothingToWrite \/ WriteReport

SpecReport == InitReport /\ [][NextReport]_vars

\* the entries of the report that render the issue
EntriesOf(issue) ==
    { k \in 1..Len(markdown) :
        markdown[k].kind = "issue" /\ markdown[k].id = issue.id }

\* C30: in every grouping mode the written report holds exactly one entry
\* for each issue handed to handleOutput.
C30_EveryIssueRenderedOnce ==
    fpc = "written" =>
        \A i \in 1..Len(reportIssues) :
            Cardinality(EntriesOf(reportIssues[i])) = 1

(***************************************************************************)
(* Properties of the issue identifiers.                                    *)
(***************************************************************************)
\* C21: any two CodeIssues created during one run have different ids.
C21_UniqueIds ==
    \A i, j \in 1..Len(createdIssues) :
        i # j => createdIssues[i].id # createdIssues[j].id

(***************************************************************************)
(* Properties of the response parsers.                                     *)
(***************************************************************************)
\* a response that is not the expected JSON: no JSON in it, JSON that does
\* not parse, an issues field that is no array, or a severity that is no
\* string
Unparsable(response) ==
    \/ response.form \in {"noJson", "invalidJson", "issuesNotArray"}
    \/ \E i \in 1..Len(response.items) : response.items[i].severity = NotAString

\* C17: for every response that is not parsable as the expected JSON the
\* analyzer's parser returns zero issues (it does not raise and emits no
\* placeholder issue).
C17_UnparsableYieldsNothing ==
    ppc \in {"parsed", "summarised"} /\ Unparsable(aiResponse) => parsedIssues = <<>>

\* C20: every issue an analyzer's parser returns has a severity of
\* IssueSeverity and a type of IssueType, whatever the response said, and
\* the per-severity counts of the summary add up to its total.
C20_EnumsAndCounts ==
    /\ ppc \in {"parsed", "summarised"} =>
          \A i \in 1..Len(parsedIssues) :
              /\ parsedIssues[i].severity \in IssueSeverity
              /\ parsedIssues[i].type \in IssueType
    /\ ppc = "summarised" =>
          parsedSummary.critical + parsedSummary.error + parsedSummary.warning
            + parsedSummary.info = parsedSummary.total

(***************************************************************************)
(* Properties of sorting and grouping.                                     *)
(***************************************************************************)
IsPermutation(s, t) ==
    /\ Len(s) = Len(t)
    /\ \E f \in [1..Len(s) -> 1..Len(s)] :
          /\ \A i, j \in 1..Len(s) : i # j => f[i] # f[j]
          /\ \A i \in 1..Len(s) : t[f[i]] = s[i]

\* lexicographic rank of the file paths and type names of the model
PathRank(path) == IF path = "a.ts" THEN 1 ELSE 2

TypeRank(type) ==
    CASE type = "bug"          -> 1
      [] type = "optimization" -> 2
      [] type = "other"        -> 3
      [] type = "security"     -> 4
      [] type = "style"        -> 5

\* a comes no later than b by (file path, start line, type name)
PlaceBefore(a, b) ==
    \/ PathRank(a.filePath) < PathRank(b.filePath)
    \/ /\ a.filePath = b.filePath
       /\ \/ a.startLine < b.startLine
          \/ a.startLine = b.startLine /\ TypeRank(a.type) <= TypeRank(b.type)

C5_SortedPermutation ==
    step = "sorted" =>
        /\ IsPermutation(issues, sortedIssues)
        /\ \A i, j \in 1..Len(sortedIssues) :
              (/\ i < j
               /\ sortedIssues[i].severity \in IssueSeverity
               /\ sortedIssues[j].severity \in IssueSeverity)
                  => severityOrder[sortedIssues[i].severity]
                        <= severityOrder[sortedIssues[j].severity]

\* C6: sorting the sorted output once more yields the identical sequence.
C6_SortIdempotent ==
    step = "resorted" => resortedIssues = sortedIssues

\* a list that the first sort really had to reorder was sorted twice
C6_Witness ==
    /\ step = "resorted"
    /\ sortedIssues # issues
    /\ Len(issues) >= 3

KeysOf(map) == { map[e].key : e \in 1..Len(map) }

SubSeqWithKey(s, field, key) ==
    LET Test(x) == x[field] = key IN SelectSeq(s, Test)

Partitions(map, input, field) ==
    /\ \A e, f \in 1..Len(map) : e # f => map[e].key # map[f].key
    /\ KeysOf(map) = { input[i][field] : i \in 1..Len(input) }
    /\ \A e \in 1..Len(map) :
          map[e].items = SubSeqWithKey(input, field, map[e].key)

\* C7: each groupIssuesBy* method partitions its input: every issue is in
\* exactly one group, under its own file path / type / severity, and every
\* group lists its issues in input order.
C7_GroupingPartitions ==
    /\ step = "byFile"     => Partitions(groupedIssues, issues, "filePath")
    /\ step = "byType"     => Partitions(groupedIssues, issues, "type")
    /\ step = "bySeverity" => Partitions(groupedIssues, issues, "severity")

\* a grouping produced two groups, one of them holding several issues
C7_Witness ==
    /\ step \in {"byFile", "byType", "bySeverity"}
    /\ Len(groupedIssues) >= 2
    /\ \E e \in 1..Len(groupedIssues) : Len(groupedIssues[e].items) >= 2

\* the issues held by an array / by the entries of a Map
ElementsOf(arr) == { arr[k] : k \in 1..Len(arr) }

GroupedElements(map) == UNION { ElementsOf(map[e].items) : e \in 1..Len(map) }

====
